---- MODULE Spec2Model ----
(***************************************************************************)
(* Model of src/app.py: the image pipeline of the Streamlit logo tool.     *)
(*   resize_image       canvas normalisation (cover policy, float scale)   *)
(*   get_accent_color   pixel sampling, KMeans, vibrancy selection chain   *)
(*   download_svg_from_url / create_colored_svg / svg_to_png   logo path   *)
(*   add_logo_to_image  bottom-right compositing                           *)
(*   main               the request handler that chains them               *)
(***************************************************************************)
EXTENDS Integers, Sequences, FiniteSets, TLC

VARIABLES norm, acc, sel, req, tempfile, cairosvg

vars == <<norm, acc, sel, req, tempfile, cairosvg>>

None == "None"

(***************************************************************************)
(* Bounds of the model.                                                    *)
(***************************************************************************)
\* image sides 1..MaxDim are enumerated (49 is the first side whose
\* float product side * (1/side) falls below 1)
MaxDim == 49
\* cluster counts 1..MaxClusters are enumerated for get_accent_color
MaxClusters == 3
\* centroid lists of length 1..MaxCentroids are enumerated for the selection
MaxCentroids == 3
\* logo sides 1..MaxLogo and spacings 0..MaxSpacing for add_logo_to_image
MaxLogo == 3
MaxSpacing == 2
\* canvas sides 1..MaxCanvas for add_logo_to_image
MaxCanvas == 8
\* target sizes 1..MaxTarget are enumerated next to the default
MaxTarget == 3

(***************************************************************************)
(* Program constants.                                                      *)
(***************************************************************************)
DefaultTargetSize == 3000
DefaultNColors == 10
SampleCap == 10000
LogoSide == 300
DefaultSpacing == 100

Min(a, b) == IF a <= b THEN a ELSE b

Max(a, b) == IF a >= b THEN a ELSE b

RECURSIVE Pow2(_)
Pow2(n) == IF n = 0 THEN 1 ELSE 2 * Pow2(n - 1)

(***************************************************************************)
(* IEEE-754 double arithmetic of  int(side * scale)  with                  *)
(*   scale = max(target/width, target/height) = fl(num/den).               *)
(* The quotient is rounded to 53 bits, the product is rounded again and    *)
(* int() truncates.  Only the residues of the roundings are computed, so   *)
(* all numbers stay small.                                                 *)
(***************************************************************************)
\* floor(log2(n)) for n >= 1
RECURSIVE FloorLog2(_)
FloorLog2(n) == IF n < 2 THEN 0 ELSE 1 + FloorLog2(n \div 2)

\* floor(log2(num/den)), the binary exponent of the quotient
RECURSIVE FloorLog2Ratio(_, _)
FloorLog2Ratio(num, den) ==
    IF num >= den
    THEN (IF num >= 2 * den THEN 1 + FloorLog2Ratio(num, 2 * den) ELSE 0)
    ELSE FloorLog2Ratio(2 * num, den) - 1

\* 2^k mod d, by squaring
RECURSIVE Pow2Mod(_, _)
Pow2Mod(k, d) ==
    IF k = 0 THEN 1 % d
    ELSE CHOOSE v \in {IF k % 2 = 0 THEN (h * h) % d ELSE (2 * h * h) % d :
                          h \in {Pow2Mod(k \div 2, d)}} : TRUE

\* the signed residue for the remainder r of num * 2^k by den
Residue(r, den) ==
    IF r = 0 THEN 0
    ELSE IF 2 * r < den THEN 0 - r
    ELSE den - r

\* den * Q - num * 2^k, where Q = fl(num/den) * 2^k is the 53-bit mantissa
\* of the rounded quotient: the signed rounding residue of the division
QuotErr(num, den) ==
    CHOOSE e \in {Residue(r, den) :
                     r \in {(num * Pow2Mod(52 - FloorLog2Ratio(num, den), den))
                                % den}} : TRUE

IsPow2(n) == n = Pow2(FloorLog2(n))

\* side * fl(num/den) is exactly below the integer N = side*num/den by
\* more than half a unit in the last place of the doubles below N, so the
\* rounded product is below N
ProductRoundsBelow(side, num, den, N) ==
    \E e \in {QuotErr(num, den)} :
        /\ e < 0
        /\ \E ex \in {FloorLog2(N) - FloorLog2Ratio(num, den) + 1
                         - (IF IsPow2(N) THEN 1 ELSE 0)} :
              /\ ex < 22
              /\ 4 * side * (0 - e) > den * Pow2(ex)

ScaleFit(width, height, target_size) ==
    [num |-> target_size, den |-> Max(width, height)]

\* scale = max(target_size / width, target_size / height)
Scale(width, height, target_size) ==
    [num |-> target_size, den |-> Min(width, height)]

\* int(side * scale)
IntTimesScale(side, scale) ==
    LET p == side * scale.num
    IN  IF p % scale.den # 0 THEN p \div scale.den
        ELSE IF ProductRoundsBelow(side, scale.num, scale.den, p \div scale.den)
             THEN (p \div scale.den) - 1
             ELSE p \div scale.den

(***************************************************************************)
(* Images are records of their size and mode; the pixels of a canvas are   *)
(* described by the geometry of the paste.                                 *)
(***************************************************************************)
White == <<255, 255, 255>>

Modes == {"RGB", "RGBA", "L"}

Sides == (1..MaxDim) \cup {600, 1000}

TargetSizes == (1..MaxTarget) \cup {DefaultTargetSize}

Img(w, h, m) == [width |-> w, height |-> h, mode |-> m]

\* resize_image: the values of its locals, or the ValueError that
\* Image.resize raises for a size below 1
ResizeImage(image, target_size) ==
    LET scale      == Scale(image.width, image.height, target_size)
        new_width  == IntTimesScale(image.width, scale)
        new_height == IntTimesScale(image.height, scale)
    IN  [raised     |-> new_width < 1 \/ new_height < 1,
         new_width  |-> new_width,
         new_height |-> new_height,
         paste_x    |-> (target_size - new_width) \div 2,
         paste_y    |-> (target_size - new_height) \div 2,
         new_image  |-> [width  |-> target_size,
                         height |-> target_size,
                         mode   |-> IF image.mode = "RGBA" THEN "RGBA" ELSE "RGB",
                         fill   |-> White]]

\* position = (image.width - logo.width - spacing,
\*             image.height - logo.height - spacing)
PastePositionInward(image, logo, spacing) ==
    <<image.width - logo.width + spacing, image.height - logo.height + spacing>>

PastePosition(image, logo, spacing) ==
    <<image.width - logo.width - spacing, image.height - logo.height - spacing>>

\* add_logo_to_image: the paste position and the returned image
AddLogoToImage(image, logo, spacing) ==
    [position |-> PastePosition(image, logo, spacing),
     result   |-> [width  |-> image.width,
                   height |-> image.height,
                   mode   |-> "RGBA",
                   fill   |-> image.fill]]

(***************************************************************************)
(* norm: one call of resize_image followed by add_logo_to_image, or one    *)
(* call of add_logo_to_image alone.                                        *)
(***************************************************************************)
NormIdle ==
    norm = [pc |-> "idle", image |-> None, target_size |-> 0, resized |-> None,
            canvas |-> None, logo |-> None, spacing |-> 0,
            position |-> None, result |-> None]

NormStart ==
    \E w \in Sides, h \in Sides, m \in Modes, t \in TargetSizes :
        norm = [pc |-> "resize", image |-> Img(w, h, m), target_size |-> t,
                resized |-> None, canvas |-> None,
                logo |-> [width |-> LogoSide, height |-> LogoSide],
                spacing |-> DefaultSpacing,
                position |-> None, result |-> None]

CompositeStart ==
    \E w \in 1..MaxCanvas, h \in 1..MaxCanvas, m \in {"RGB", "RGBA"},
       lw \in 1..MaxLogo, lh \in 1..MaxLogo, s \in 0..MaxSpacing :
        norm = [pc |-> "compose", image |-> None, target_size |-> 0,
                resized |-> None,
                canvas |-> [width |-> w, height |-> h, mode |-> m, fill |-> White],
                logo |-> [width |-> lw, height |-> lh],
                spacing |-> s,
                position |-> None, result |-> None]

\* resized_image = resize_image(image)
DoResizeImage ==
    /\ norm.pc = "resize"
    /\ \E r \in {ResizeImage(norm.image, norm.target_size)} :
           norm' = [norm EXCEPT !.pc = IF r.raised THEN "raised" ELSE "compose",
                                !.resized = r,
                                !.canvas = IF r.raised THEN None ELSE r.new_image]
    /\ UNCHANGED <<acc, sel, req, tempfile, cairosvg>>

\* final_image = add_logo_to_image(resized_image, logo)
DoAddLogoToImage ==
    /\ norm.pc = "compose"
    /\ LET r == AddLogoToImage(norm.canvas, norm.logo, norm.spacing)
       IN  norm' = [norm EXCEPT !.pc = "done",
                                !.position = r.position,
                                !.result = r.result]
    /\ UNCHANGED <<acc, sel, req, tempfile, cairosvg>>


(***************************************************************************)
(* Colours are <<r, g, b>> with channels 0..255.  The comparisons of       *)
(* get_accent_color are made on integers: with M the largest and m the     *)
(* smallest channel, colorsys.rgb_to_hsv gives v = M/255 and               *)
(* s = (M - m)/M (0 when M = m), so s * v = (M - m)/255.                   *)
(***************************************************************************)
MaxC(c) == Max(c[1], Max(c[2], c[3]))

MinC(c) == Min(c[1], Min(c[2], c[3]))

\* largest channels M for which the double (M/255 - m/255)/(M/255) of an
\* exact ratio 2/5 evaluates to 0.4000000000000001
SatRoundsUp == {35, 70, 140, 245}

\* s > 0.4
SaturationAbove04(c) ==
    \/ 5 * (MaxC(c) - MinC(c)) > 2 * MaxC(c)
    \/ /\ 5 * (MaxC(c) - MinC(c)) = 2 * MaxC(c)
       /\ MaxC(c) \in SatRoundsUp

\* 0.3 < v < 0.9
ValueInRange(c) == 10 * MaxC(c) > 3 * 255 /\ 10 * MaxC(c) < 9 * 255

\* if s > 0.4 and 0.3 < v < 0.9
IsVibrant(c) == SaturationAbove04(c) /\ ValueInRange(c)

\* vibrancy = s * v, in units of 1/255
Vibrancy(c) == MaxC(c) - MinC(c)

\* brightness = (r + g + b) / 3; if 30 < brightness < 230
IsMidBright(c) == c[1] + c[2] + c[3] > 3 * 30 /\ c[1] + c[2] + c[3] < 3 * 230

\* variance = np.var([r, g, b]), in units of 1/9
Variance(c) ==
    3 * (c[1] * c[1] + c[2] * c[2] + c[3] * c[3])
        - (c[1] + c[2] + c[3]) * (c[1] + c[2] + c[3])

\* tuple order of Python on rgb tuples
LexLess(c, d) ==
    \/ c[1] < d[1]
    \/ c[1] = d[1] /\ c[2] < d[2]
    \/ c[1] = d[1] /\ c[2] = d[2] /\ c[3] < d[3]

Range(q) == {q[i] : i \in 1..Len(q)}

\* vibrant_colors.sort(reverse=True); vibrant_colors[0][1]
\* The doubles s * v of two colours are the same when M and m are, and then
\* the rgb tuples decide; colours of equal exact vibrancy and different
\* M, m differ in the last bits of s * v, either may come first.
LeastVibrant(vibrant_colors) ==
    {c \in Range(vibrant_colors) :
        \A d \in Range(vibrant_colors) : Vibrancy(d) >= Vibrancy(c)}

MostVibrant(vibrant_colors) ==
    {c \in Range(vibrant_colors) :
        \A d \in Range(vibrant_colors) :
            /\ Vibrancy(d) <= Vibrancy(c)
            /\ ~(MaxC(d) = MaxC(c) /\ MinC(d) = MinC(c) /\ LexLess(c, d))}

\* filtered_colors.sort(reverse=True); filtered_colors[0][1]
\* np.var of colours of equal exact variance differs in the last bits.
MostColorful(filtered_colors) ==
    {c \in Range(filtered_colors) :
        \A d \in Range(filtered_colors) : Variance(d) <= Variance(c)}

\* the selection chain of get_accent_color on the centroids `colors`:
\* the set of colours it can return
SelectAccent(colors) ==
    LET vibrant_colors  == SelectSeq(colors, IsVibrant)
        filtered_colors == SelectSeq(colors, IsMidBright)
    IN  IF vibrant_colors # <<>> THEN MostVibrant(vibrant_colors)
        ELSE IF filtered_colors # <<>> THEN MostColorful(filtered_colors)
        ELSE {colors[1]}

(***************************************************************************)
(* sel: the selection chain applied to a list of centroids.                *)
(***************************************************************************)
SelectPalette ==
    { <<0, 0, 0>>, <<255, 255, 255>>, <<100, 100, 100>>, <<70, 70, 0>>,
      <<80, 48, 48>>, <<140, 84, 84>>, <<120, 90, 60>>,
      <<200, 50, 50>>, <<50, 200, 50>>, <<180, 30, 30>> }

SelIdle == sel = [pc |-> "idle", colors |-> <<>>, color |-> None]

SelStart ==
    \E n \in 1..MaxCentroids :
        \E colors \in [1..n -> SelectPalette] :
            sel = [pc |-> "select", colors |-> colors, color |-> None]

\* lines 54-92 of get_accent_color on the centroids sel.colors
DoSelectAccent ==
    /\ sel.pc = "select"
    /\ \E c \in SelectAccent(sel.colors) :
          sel' = [sel EXCEPT !.pc = "returned", !.color = c]
    /\ UNCHANGED <<norm, acc, req, tempfile, cairosvg>>


(***************************************************************************)
(* A canvas is the bag of its pixels: colour |-> number of pixels.         *)
(***************************************************************************)
RECURSIVE SumOver(_, _)
SumOver(f, S) ==
    IF S = {} THEN 0
    ELSE LET x == CHOOSE x \in S : TRUE IN f[x] + SumOver(f, S \ {x})

NumPixels(canvas) == SumOver(canvas, DOMAIN canvas)

Support(canvas) == {c \in DOMAIN canvas : canvas[c] > 0}

\* sample_size = min(10000, len(pixels))
SampleSize(canvas) == Min(SampleCap, NumPixels(canvas))

\* pixels[np.random.choice(len(pixels), sample_size, replace=False)]:
\* the sets of colours a draw of sample_size pixels without replacement can
\* consist of.  The generator of np.random is not seeded, every draw (and
\* every order of the drawn pixels) is possible.
SampledColors(canvas) ==
    {D \in SUBSET Support(canvas) :
        /\ D # {}
        /\ Cardinality(D) <= SampleSize(canvas)
        /\ SumOver(canvas, D) >= SampleSize(canvas)}

RECURSIVE SeqOfSet(_)
SeqOfSet(S) ==
    IF S = {} THEN <<>>
    ELSE LET x == CHOOSE x \in S : \A y \in S : x = y \/ LexLess(x, y)
         IN  <<x>> \o SeqOfSet(S \ {x})

\* KMeans(n_clusters, random_state=0).fit(sampled_pixels)
\*     .cluster_centers_.astype(int)
\* for a sample of at most n_clusters distinct colours: every distinct
\* colour is a centroid, the first centroid is the colour of the pixel at
\* the seeded index of the sample (first_pixel), clusters left over repeat
\* a colour.  fit raises ValueError when n_samples < n_clusters.
KMeansRaises(sample_size, n_clusters) == sample_size < n_clusters

KMeansCentroids(sampled, first_pixel, n_clusters) ==
    LET rest == SeqOfSet(sampled \ {first_pixel})
    IN  [i \in 1..n_clusters |->
            IF i = 1 THEN first_pixel
            ELSE IF i - 1 <= Len(rest) THEN rest[i - 1]
            ELSE first_pixel]

(***************************************************************************)
(* acc: two calls of get_accent_color on the same canvas and n_colors.     *)
(***************************************************************************)
Black == <<0, 0, 0>>

CanvasPalette == {Black, White, <<100, 100, 100>>, <<200, 0, 0>>}

PixelCounts == {0, 1, 2, SampleCap - 1, SampleCap}

Runs == {1, 2}

NoRun == [pc |-> "call", sampled |-> {}, colors |-> <<>>, color |-> None]

AccIdle == acc = [canvas |-> <<>>, n_colors |-> 0, run |-> [r \in Runs |-> NoRun]]

AccStart ==
    \E canvas \in [CanvasPalette -> PixelCounts], k \in 1..MaxClusters :
        /\ NumPixels(canvas) >= 1
        /\ Cardinality(Support(canvas)) <= k
        /\ acc = [canvas |-> canvas, n_colors |-> k,
                  run |-> [r \in Runs |-> NoRun]]

\* get_accent_color(image, n_colors), one whole call
GetAccentColor(r) ==
    /\ acc.run[r].pc = "call"
    /\ \/ /\ KMeansRaises(SampleSize(acc.canvas), acc.n_colors)
          /\ acc' = [acc EXCEPT !.run[r].pc = "raised"]
       \/ /\ ~KMeansRaises(SampleSize(acc.canvas), acc.n_colors)
          /\ \E sampled \in SampledColors(acc.canvas) :
             \E first_pixel \in sampled :
                LET colors == KMeansCentroids(sampled, first_pixel, acc.n_colors)
                IN  \E c \in SelectAccent(colors) :
                       acc' = [acc EXCEPT !.run[r] =
                                  [pc |-> "returned", sampled |-> sampled,
                                   colors |-> colors, color |-> c]]
    /\ UNCHANGED <<norm, sel, req, tempfile, cairosvg>>


(***************************************************************************)
(* req: the requests served by main.  Streamlit runs the script of every   *)
(* session in a thread of the one server process, so the requests share    *)
(* the working directory and with it the file temp_colored.svg.            *)
(***************************************************************************)
Requests == {1, 2}

\* uploaded images: a size, a mode and (all pixels alike) a colour
MainImages ==
    { [width |-> 1000, height |-> 600, mode |-> "RGB", color |-> <<200, 0, 0>>],
      [width |-> 35, height |-> 42, mode |-> "RGBA", color |-> Black] }

\* response.text of a successful GET: an SVG whose shape has fill="black",
\* an SVG without that attribute, a body that is no SVG, an empty body;
\* NoSvg is the None that download_svg_from_url returns after an exception.
\* A fill is <<word, r, g, b>>.
FillBlack == <<"black", 0, 0, 0>>

FillOther == <<"other", 0, 0, 0>>

SvgBlack == [kind |-> "svg", fill |-> FillBlack]

SvgPlain == [kind |-> "svg", fill |-> FillOther]

NotSvg == [kind |-> "notsvg", fill |-> FillOther]

EmptyText == [kind |-> "empty", fill |-> FillOther]

NoSvg == [kind |-> "None", fill |-> FillOther]

Responses == {SvgBlack, SvgPlain, NotSvg, EmptyText}

\* if svg_content:  (None and "" are false)
Truthy(svg_content) == svg_content.kind \notin {"empty", "None"}

\* "#{:02x}{:02x}{:02x}".format(*color)
ColorHex(color) == <<"#", color[1], color[2], color[3]>>

\* (*color, 255)
Opaque(color) == <<"rgba", color[1], color[2], color[3]>>

\* create_colored_svg
CreateColoredSvg(svg_content, color) ==
    IF Truthy(svg_content)
    THEN (IF svg_content.fill = FillBlack
          THEN [svg_content EXCEPT !.fill = ColorHex(color)]
          ELSE svg_content)
    ELSE NoSvg

NoLogo == [kind |-> "None", width |-> 0, height |-> 0, fill |-> FillOther]

\* values of the locals of main before they are assigned
NoImage == [width |-> 0, height |-> 0, mode |-> "None", fill |-> <<>>]

NoColor == <<>>

NoPosition == <<>>

\* the fallback of main: a circle of the accent colour on a 300x300 image
CircleLogo(color) ==
    [kind |-> "circle", width |-> LogoSide, height |-> LogoSide,
     fill |-> Opaque(color)]

\* Image.open(io.BytesIO(png_data)) of cairosvg.svg2png(bytestring, 300, 300)
VectorLogo(svg) ==
    [kind |-> "vector", width |-> LogoSide, height |-> LogoSide, fill |-> svg.fill]

\* the pixels of the canvas resize_image returns for a one-colour image
CanvasPixels(image, r, target_size) ==
    LET cw == Max(0, Min(target_size, r.paste_x + r.new_width) - Max(0, r.paste_x))
        ch == Max(0, Min(target_size, r.paste_y + r.new_height) - Max(0, r.paste_y))
    IN  [c \in {image.color, White} |->
            (IF c = image.color THEN cw * ch ELSE 0)
          + (IF c = White THEN target_size * target_size - cw * ch ELSE 0)]

\* what svg_to_png does when nothing else touches its temporary file
SoloOutcome(svg) ==
    IF cairosvg = "missing" THEN "NameError"
    ELSE IF svg.kind = "svg" THEN "logo"
    ELSE "ParseError"

MainStart ==
    /\ cairosvg \in {"installed", "missing"}
    /\ tempfile = [exists |-> FALSE, content |-> None]
    /\ \E images \in [Requests -> MainImages],
          net \in [Requests -> {"responds", "silent"}] :
          req = [p \in Requests |->
                    [pc |-> "resize", image |-> images[p], net |-> net[p],
                     resized_image |-> NoImage, pixels |-> <<>>,
                     accent_color |-> NoColor, svg_content |-> NoSvg,
                     colored_svg |-> NoSvg, logo |-> NoLogo, pending |-> None,
                     svg_outcome |-> None, position |-> NoPosition,
                     final_image |-> NoImage, error |-> None]]

MainIdle ==
    /\ cairosvg = "installed"
    /\ tempfile = [exists |-> FALSE, content |-> None]
    /\ req = [p \in Requests |-> [pc |-> "idle"]]

\* image = Image.open(uploaded_file); resized_image = resize_image(image)
MainResize(p) ==
    /\ req[p].pc = "resize"
    /\ \E r \in {ResizeImage(req[p].image, DefaultTargetSize)} :
           req' = [req EXCEPT ![p] =
                IF r.raised
                THEN [@ EXCEPT !.pc = "raised", !.error = "ValueError"]
                ELSE [@ EXCEPT !.pc = "accent",
                               !.resized_image = r.new_image,
                               !.pixels = CanvasPixels(req[p].image, r,
                                                       DefaultTargetSize)]]
    /\ UNCHANGED <<norm, acc, sel, tempfile, cairosvg>>

\* accent_color = get_accent_color(resized_image)
MainAccent(p) ==
    /\ req[p].pc = "accent"
    /\ IF KMeansRaises(SampleSize(req[p].pixels), DefaultNColors)
       THEN req' = [req EXCEPT ![p].pc = "raised", ![p].error = "ValueError"]
       ELSE \E sampled \in SampledColors(req[p].pixels) :
            \E first_pixel \in sampled :
            \E c \in SelectAccent(KMeansCentroids(sampled, first_pixel,
                                                  DefaultNColors)) :
               req' = [req EXCEPT ![p].pc = "download", ![p].accent_color = c]
    /\ UNCHANGED <<norm, acc, sel, tempfile, cairosvg>>

\* svg_content = download_svg_from_url(svg_url), then the branch of main on
\* it, up to the call of svg_to_png.  requests.get(url) has no timeout: it
\* returns when the server answers or the connection fails, and blocks
\* while neither happens.
MainDownload(p) ==
    /\ req[p].pc = "download"
    /\ req[p].net = "responds"
    /\ \E svg_content \in Responses \cup {NoSvg} :
          req' = [req EXCEPT ![p] =
              IF Truthy(svg_content)
              THEN [@ EXCEPT !.pc = "svg_write",
                             !.svg_content = svg_content,
                             !.colored_svg =
                                 CreateColoredSvg(svg_content,
                                                  req[p].accent_color)]
              ELSE [@ EXCEPT !.pc = "compose",
                             !.svg_content = svg_content,
                             !.logo = CircleLogo(req[p].accent_color)]]
    /\ UNCHANGED <<norm, acc, sel, tempfile, cairosvg>>


\* svg_to_png, lines 120-123: with open(temp_svg_path, 'w') as f: f.write(..)
SvgWrite(p) ==
    /\ req[p].pc = "svg_write"
    /\ tempfile' = [exists |-> TRUE, content |-> req[p].colored_svg]
    /\ req' = [req EXCEPT ![p].pc = "svg_render"]
    /\ UNCHANGED <<norm, acc, sel, cairosvg>>

\* svg_to_png, lines 125-221: the try block.  Without cairosvg the
\* ImportError branch draws the polygons with fill=(*color, 255), and color
\* is no name of svg_to_png or of the module: NameError.  With cairosvg,
\* svg2png raises on a body that is no SVG.  Either exception is pending
\* while the finally block runs.
SvgRender(p) ==
    /\ req[p].pc = "svg_render"
    /\ req' = [req EXCEPT ![p] =
          IF cairosvg = "missing"
          THEN [@ EXCEPT !.pc = "svg_exists", !.pending = "NameError"]
          ELSE IF req[p].colored_svg.kind = "svg"
          THEN [@ EXCEPT !.pc = "svg_exists",
                         !.logo = VectorLogo(req[p].colored_svg)]
          ELSE [@ EXCEPT !.pc = "svg_exists", !.pending = "ParseError"]]
    /\ UNCHANGED <<norm, acc, sel, tempfile, cairosvg>>

\* the end of svg_to_png: the pending exception propagates out of main,
\* else the logo is returned (it is not None) and main goes on to compose
LeaveFinally(r) ==
    IF r.pending # None
    THEN [r EXCEPT !.pc = "raised", !.error = r.pending,
                   !.svg_outcome = r.pending]
    ELSE IF r.logo.kind = "None"
    THEN [r EXCEPT !.pc = "compose", !.svg_outcome = "None",
                   !.logo = CircleLogo(r.accent_color)]
    ELSE [r EXCEPT !.pc = "compose", !.svg_outcome = "logo"]

\* svg_to_png, line 225: if os.path.exists(temp_svg_path)
SvgExists(p) ==
    /\ req[p].pc = "svg_exists"
    /\ req' = [req EXCEPT ![p] =
          IF tempfile.exists THEN [@ EXCEPT !.pc = "svg_remove"]
          ELSE LeaveFinally(@)]
    /\ UNCHANGED <<norm, acc, sel, tempfile, cairosvg>>

\* svg_to_png, line 226: os.remove(temp_svg_path); FileNotFoundError when
\* the file is gone, which replaces a pending exception
SvgRemove(p) ==
    /\ req[p].pc = "svg_remove"
    /\ IF tempfile.exists
       THEN /\ tempfile' = [exists |-> FALSE, content |-> None]
            /\ req' = [req EXCEPT ![p] = LeaveFinally(@)]
       ELSE /\ tempfile' = tempfile
            /\ req' = [req EXCEPT ![p].pc = "raised",
                                  ![p].error = "FileNotFoundError",
                                  ![p].svg_outcome = "FileNotFoundError"]
    /\ UNCHANGED <<norm, acc, sel, cairosvg>>

\* final_image = add_logo_to_image(resized_image, logo), and the download
\* button of the processed image
MainCompose(p) ==
    /\ req[p].pc = "compose"
    /\ LET r == AddLogoToImage(req[p].resized_image, req[p].logo, DefaultSpacing)
       IN  req' = [req EXCEPT ![p].pc = "done",
                              ![p].position = r.position,
                              ![p].final_image = r.result]
    /\ UNCHANGED <<norm, acc, sel, tempfile, cairosvg>>

\* one step of the script run of request p
RequestStep(p) ==
    \/ MainResize(p)
    \/ MainAccent(p)
    \/ MainDownload(p)
    \/ SvgWrite(p)
    \/ SvgRender(p)
    \/ SvgExists(p)
    \/ SvgRemove(p)
    \/ MainCompose(p)

(***************************************************************************)
(* Specifications.                                                         *)
(***************************************************************************)
NextNormalize == DoResizeImage \/ DoAddLogoToImage

NextComposite == DoAddLogoToImage

NextSelect == DoSelectAccent

NextAccent == \E r \in Runs : GetAccentColor(r)

NextMain == \E p \in Requests : RequestStep(p)

\* resize_image, then add_logo_to_image with the logo and spacing of main
InitNormalize == NormStart /\ AccIdle /\ SelIdle /\ MainIdle

SpecNormalize == InitNormalize /\ [][NextNormalize]_vars

\* add_logo_to_image on any canvas, logo and spacing
InitComposite == CompositeStart /\ AccIdle /\ SelIdle /\ MainIdle

SpecComposite == InitComposite /\ [][NextComposite]_vars

\* the selection chain on any list of centroids
InitSelect == SelStart /\ NormIdle /\ AccIdle /\ MainIdle

SpecSelect == InitSelect /\ [][NextSelect]_vars

\* get_accent_color, called twice on the same canvas
InitAccent == AccStart /\ NormIdle /\ SelIdle /\ MainIdle

SpecAccent == InitAccent /\ [][NextAccent]_vars

\* two requests served by main
InitMain == MainStart /\ NormIdle /\ AccIdle /\ SelIdle

SpecMain == InitMain /\ [][NextMain]_vars

\* the threads of the requests are scheduled fairly
FairMain ==
    InitMain /\ [][NextMain]_vars /\ \A p \in Requests : WF_vars(RequestStep(p))

Spec == SpecMain


(***************************************************************************)
(* Properties.                                                             *)
(***************************************************************************)
NormReturned == norm.pc \in {"compose", "done"}

The1000x600 ==
    /\ norm.image.width = 1000
    /\ norm.image.height = 600
    /\ norm.target_size = DefaultTargetSize

\* C1: for every valid input image the pipeline of main ends with an output
\* image; no failure of the logo path (download fails, cairosvg missing,
\* rasterization raises) propagates as an exception out of the request.
C1_LogoFailuresRecovered ==
    \A p \in Requests : req[p].pc # "raised"

C3_ExactCanvasUniformScale ==
    norm.pc \in {"compose", "done", "raised"} =>
        LET scale == Scale(norm.image.width, norm.image.height, norm.target_size)
            dw == norm.resized.new_width * scale.den - norm.image.width * scale.num
            dh == norm.resized.new_height * scale.den - norm.image.height * scale.num
        IN  /\ norm.pc # "raised"
            /\ norm.canvas.width = norm.target_size
            /\ norm.canvas.height = norm.target_size
            /\ dw <= scale.den /\ 0 - dw <= scale.den
            /\ dh <= scale.den /\ 0 - dh <= scale.den

\* C4: for a canvas whose pixels are all one colour C, get_accent_color
\* returns exactly C for every cluster count >= 1 and never raises.
C4_SolidColourReturned ==
    \A r \in Runs :
        (Cardinality(Support(acc.canvas)) = 1 /\ acc.run[r].pc # "call") =>
            /\ acc.run[r].pc = "returned"
            /\ acc.run[r].color \in Support(acc.canvas)

\* C5: two runs of get_accent_color on identical input (same canvas, same
\* cluster count) yield identical accent colours.
C5_TwoRunsAgree ==
    (acc.run[1].pc = "returned" /\ acc.run[2].pc = "returned") =>
        acc.run[1].color = acc.run[2].color

\* C6: add_logo_to_image pastes the logo at (canvasWidth - logoWidth -
\* margin, canvasHeight - logoHeight - margin), and when the canvas is at
\* least logo size + 2*margin in both dimensions the paste rectangle lies
\* inside [0, canvasWidth) x [0, canvasHeight).
C6_PasteInsideCanvas ==
    norm.pc = "done" =>
        /\ norm.position[1] = norm.canvas.width - norm.logo.width - norm.spacing
        /\ norm.position[2] = norm.canvas.height - norm.logo.height - norm.spacing
        /\ ( /\ norm.canvas.width >= norm.logo.width + 2 * norm.spacing
             /\ norm.canvas.height >= norm.logo.height + 2 * norm.spacing ) =>
               /\ norm.position[1] >= 0
               /\ norm.position[2] >= 0
               /\ norm.position[1] + norm.logo.width <= norm.canvas.width
               /\ norm.position[2] + norm.logo.height <= norm.canvas.height

\* C6 witness: a logo pasted with a positive margin on a non-square canvas
\* of exactly logo size + 2*margin in width.
C6_Witness ==
    /\ norm.pc = "done"
    /\ norm.spacing > 0
    /\ norm.canvas.width = norm.logo.width + 2 * norm.spacing
    /\ norm.canvas.height > norm.logo.height + 2 * norm.spacing
    /\ norm.canvas.width # norm.canvas.height
    /\ norm.position[1] = norm.spacing

\* C7: if the server of the logo never responds, the fetch times out,
\* download_svg_from_url returns, the fallback logo is used and the request
\* eventually completes with an output image.
C7_SilentServerTimesOut ==
    \A p \in Requests :
        (req[p].pc = "download" /\ req[p].net = "silent") ~> (req[p].pc = "done")

\* C8: for any interleaving of two requests in svg_to_png, the outcome of
\* each (logo returned, or error raised) is the outcome it has when run
\* alone.
C8_RequestsDoNotInterfere ==
    \A p \in Requests :
        req[p].svg_outcome # None =>
            req[p].svg_outcome = SoloOutcome(req[p].colored_svg)

\* C9: get_accent_color selects by the vibrancy chain: if a centroid has
\* saturation > 0.4 and 0.3 < value < 0.9 it returns one of those with the
\* largest saturation*value; otherwise, if a centroid has mean brightness
\* strictly between 30 and 230, one of those with the largest per-channel
\* variance; otherwise the first centroid.  The result is one of the
\* centroids.
C9_VibrancyChain ==
    sel.pc = "returned" =>
        LET idx        == 1..Len(sel.colors)
            anyVibrant == \E i \in idx : IsVibrant(sel.colors[i])
            anyMid     == \E i \in idx : IsMidBright(sel.colors[i])
        IN  /\ \E i \in idx : sel.colors[i] = sel.color
            /\ anyVibrant =>
                  /\ IsVibrant(sel.color)
                  /\ \A i \in idx : IsVibrant(sel.colors[i]) =>
                        Vibrancy(sel.colors[i]) <= Vibrancy(sel.color)
            /\ (~anyVibrant /\ anyMid) =>
                  /\ IsMidBright(sel.color)
                  /\ \A i \in idx : IsMidBright(sel.colors[i]) =>
                        Variance(sel.colors[i]) <= Variance(sel.color)
            /\ (~anyVibrant /\ ~anyMid) => sel.color = sel.colors[1]

\* C9 witness: among several vibrant centroids of different vibrancy the
\* most vibrant was returned, and it is not the first centroid.
C9_Witness ==
    /\ sel.pc = "returned"
    /\ Len(sel.colors) >= 2
    /\ IsVibrant(sel.colors[1])
    /\ IsVibrant(sel.color)
    /\ Vibrancy(sel.colors[1]) < Vibrancy(sel.color)

\* C10: when margin and logo size together exceed the canvas,
\* add_logo_to_image clamps the paste position, so the paste coordinates it
\* uses are never negative.
C10_PositionClamped ==
    norm.pc = "done" => (norm.position[1] >= 0 /\ norm.position[2] >= 0)


====
